---- MODULE Spec2Model ----
(***************************************************************************)
(* A model of the fasta crate (src/src/lib.rs): the Record type, its       *)
(* header splitter and Display rendering, the peekable line source, the    *)
(* streaming parser FastaBuffer::next and the batch parser Fasta::parse.   *)
(*                                                                         *)
(* A Rust String is a sequence of one-character strings.  A line of the    *)
(* source is what BufRead::lines() yields: Ok(text without terminator) or  *)
(* Err(io::Error).                                                         *)
(***************************************************************************)
EXTENDS Naturals, Sequences, FiniteSets, TLC

VARIABLES
    lines,   \* the items the underlying Lines<B> iterator yields, in order
    pos,     \* PeekableLines: how many of them have been consumed
    ret,     \* the value returned by the last call on the line source / parser
    active,  \* FastaBuffer::next: the local active_record when the call returned
    out,     \* the records the consumer has collected from the streaming parser
    batch,   \* the value returned by Fasta::parse on the same input
    op,      \* the operation that ran last
    pc,      \* position of the consumer loop of main.rs
    text,    \* Display: the rendered text of a record
    again    \* the records parsed back from the rendered text

vars == <<lines, pos, ret, active, out, batch, op, pc, text, again>>

----------------------------------------------------------------------------
\* Bounds of the model.

\* longest input, in lines
MaxLines == 4
\* longest line handed to the header splitters
MaxHeaderLen == 5
\* longest sequence handed to Display (the preview cut lies inside)
MaxSeqLen == 42

----------------------------------------------------------------------------
\* Strings.

\* char::is_whitespace, on the characters the model uses
is_whitespace(c) == c \in {" ", "\t"}

RECURSIVE trim_start(_)
trim_start(s) ==
    IF s # <<>> /\ is_whitespace(Head(s)) THEN trim_start(Tail(s)) ELSE s

RECURSIVE trim_end(_)
trim_end(s) ==
    IF s # <<>> /\ is_whitespace(s[Len(s)])
    THEN trim_end(SubSeq(s, 1, Len(s) - 1))
    ELSE s

\* str::trim
trim(s) == trim_end(trim_start(s))

\* s.chars().next(): the first character, "" standing for None
NoChar == ""
first_char(s) == IF s = <<>> THEN NoChar ELSE Head(s)

\* s.starts_with('>')
starts_with_marker(s) == s # <<>> /\ Head(s) = ">"

\* s.splitn(2, char::is_whitespace), collected: one part when s holds no
\* whitespace (also for the empty string), else the text before the first
\* whitespace character and the text after that one character.
splitn2(s) ==
    LET ws == {i \in 1..Len(s) : is_whitespace(s[i])}
    IN  IF ws = {} THEN <<s>>
        ELSE LET i == CHOOSE k \in ws : \A j \in ws : k <= j
             IN  <<SubSeq(s, 1, i - 1), SubSeq(s, i + 1, Len(s))>>

\* parts.next().unwrap_or("") for the n-th call of next()
part_or_empty(parts, n) == IF n <= Len(parts) THEN parts[n] ELSE <<>>

----------------------------------------------------------------------------
\* Record and the header splitters.

\* Record::new(): Default for three Strings
Record_new == [id |-> <<>>, description |-> <<>>, sequence |-> <<>>]

\* Record::set_header(&mut self, s)
Record_set_header(rec, s) ==
    LET parts == IF starts_with_marker(s) THEN splitn2(Tail(s)) ELSE splitn2(s)
    IN  [rec EXCEPT !.id = part_or_empty(parts, 1),
                    !.description = part_or_empty(parts, 2)]

\* The free function set_header(rec, s): s[1..] without a test of the first
\* character; the slice panics on the empty string.
\* set_header_keeps_marker is the split of s itself, marker included.
Panic == [id |-> <<"!">>, description |-> <<"panic">>, sequence |-> <<"!">>]
set_header_keeps_marker(rec, s) ==
    LET parts == splitn2(s)
    IN  [rec EXCEPT !.id = part_or_empty(parts, 1),
                    !.description = part_or_empty(parts, 2)]
set_header(rec, s) ==
    IF s = <<>> THEN Panic
    ELSE LET parts == splitn2(Tail(s))
         IN  [rec EXCEPT !.id = part_or_empty(parts, 1),
                         !.description = part_or_empty(parts, 2)]

----------------------------------------------------------------------------
\* Lines of the source.

OkLine(s) == [ok |-> TRUE, s |-> s]
ErrLine == [ok |-> FALSE, s |-> <<>>]

\* The texts a line of the input is drawn from: blank, comment, headers with
\* and without description, sequence data, and the same with surrounding
\* whitespace.
LineTexts ==
    { <<>>,
      <<" ">>,
      <<";", "c">>,
      <<">", "a">>,
      <<">", "b", " ", "d">>,
      <<"A">>,
      <<" ", "C", " ">>,
      <<" ", ">", "e">> }

LineSet == {OkLine(s) : s \in LineTexts} \cup {ErrLine}

RECURSIVE SeqsUpTo(_, _)
SeqsUpTo(S, n) ==
    IF n = 0 THEN {<<>>}
    ELSE LET shorter == SeqsUpTo(S, n - 1)
         IN  shorter \cup {Append(q, x) : q \in {r \in shorter : Len(r) = n - 1}, x \in S}

Inputs == SeqsUpTo(LineSet, MaxLines)

----------------------------------------------------------------------------
\* Values returned.

None == [kind |-> "None", rec |-> Record_new]
SomeOk(rec) == [kind |-> "Ok", rec |-> rec]
SomeErr == [kind |-> "Err", rec |-> Record_new]
NotCalled == [kind |-> "NotCalled", rec |-> Record_new]

----------------------------------------------------------------------------
\* FastaBuffer::next.

\* The arm `None | Some(';') => ()` of the match on the first character.
\* skip_streaming_dropped is the arm without Some(';'): a comment line would
\* be taken for data.
skip_streaming_dropped(c) == c = NoChar
skip_streaming(c) == c = NoChar \/ c = ";"

\* The arm `Err(e) => return Some(Err(..))`, taken before the line is
\* consumed.  read_error_partial is the arm handing out the record built so
\* far instead, as the exhausted source does; read_error_consuming is the arm
\* that advances past the failed line before it returns.
read_error_consuming(p, act, rec) ==
    [ret |-> SomeErr, pos |-> p + 1, active |-> act]
read_error_partial(p, act, rec) ==
    [ret |-> IF act THEN SomeOk(rec) ELSE SomeErr, pos |-> p, active |-> act]
read_error(p, act, rec) == [ret |-> SomeErr, pos |-> p, active |-> act]

\* The arm `Some('>') if active_record => return Some(Ok(rec))`: the header
\* is peeked, not consumed.  header_emits_consuming is the arm that advances
\* past the header before it returns.
header_emits_consuming(p, act, rec) ==
    [ret |-> SomeOk(rec), pos |-> p + 1, active |-> act]
header_emits(p, act, rec) == [ret |-> SomeOk(rec), pos |-> p, active |-> act]

\* After the loop: `if active_record { Some(Ok(rec)) } else { None }`.
\* exhausted_drops is the end that returns None whatever was built.
exhausted_drops(p, act, rec) == [ret |-> None, pos |-> p, active |-> act]
exhausted(p, act, rec) ==
    [ret |-> IF act THEN SomeOk(rec) ELSE None, pos |-> p, active |-> act]

\* The while-let loop over peekline()/advanceline(), from position p with
\* the locals active_record = act and rec, and the final if.  The result is
\* the returned item, the position of the line source and active_record at
\* return.
RECURSIVE FastaBuffer_loop(_, _, _, _)
FastaBuffer_loop(ls, p, act, rec) ==
    IF p >= Len(ls)
    THEN exhausted(p, act, rec)
    ELSE IF ~ls[p + 1].ok
    THEN read_error(p, act, rec)
    ELSE LET nextline == trim(ls[p + 1].s)
             c == first_char(nextline)
         IN  IF skip_streaming(c)
             THEN FastaBuffer_loop(ls, p + 1, act, rec)
             ELSE IF c = ">" /\ act
             THEN header_emits(p, act, rec)
             ELSE IF c = ">"
             THEN FastaBuffer_loop(ls, p + 1, TRUE, Record_set_header(rec, nextline))
             ELSE IF act
             THEN FastaBuffer_loop(ls, p + 1, act,
                      [rec EXCEPT !.sequence = rec.sequence \o nextline])
             ELSE FastaBuffer_loop(ls, p + 1, act, rec)

\* One call of FastaBuffer::next on a source at position p: the locals start
\* as active_record = false and rec = Record::new().
\* FastaBuffer_call_active starts with active_record = true;
\* FastaBuffer_call_ends_on_stray returns None at a data line met before any
\* header instead of skipping it.
FastaBuffer_call_active(ls, p) == FastaBuffer_loop(ls, p, TRUE, Record_new)
FastaBuffer_call_ends_on_stray(ls, p) ==
    IF /\ p < Len(ls) /\ ls[p + 1].ok
       /\ ~skip_streaming(first_char(trim(ls[p + 1].s)))
       /\ first_char(trim(ls[p + 1].s)) # ">"
    THEN [ret |-> None, pos |-> p + 1, active |-> FALSE]
    ELSE FastaBuffer_loop(ls, p, FALSE, Record_new)
FastaBuffer_call(ls, p) == FastaBuffer_loop(ls, p, FALSE, Record_new)

----------------------------------------------------------------------------
\* Fasta::parse.

\* The readable lines before the first failure (what map_while(Result::ok)
\* would give)
RECURSIVE take_while_ok(_)
take_while_ok(ls) ==
    IF ls = <<>> \/ ~Head(ls).ok THEN <<>>
    ELSE <<Head(ls).s>> \o take_while_ok(Tail(ls))

\* r.lines().filter_map(Result::ok)
RECURSIVE filter_map_ok(_)
filter_map_ok(ls) ==
    IF ls = <<>> THEN <<>>
    ELSE IF Head(ls).ok THEN <<Head(ls).s>> \o filter_map_ok(Tail(ls))
    ELSE filter_map_ok(Tail(ls))

\* The arm `None | Some(';') => continue` of the match on the first character
skip_batch(c) == c = NoChar \/ c = ";"

\* The for loop of Fasta::parse over the texts ts, from index i, then the
\* push of the final record.
RECURSIVE Fasta_parse_loop(_, _, _, _, _)
Fasta_parse_loop(ts, i, records, current_rec, active_record) ==
    IF i > Len(ts)
    THEN IF active_record THEN Append(records, current_rec) ELSE records
    ELSE LET line == ts[i]
             c == first_char(trim(line))
         IN  IF skip_batch(c)
             THEN Fasta_parse_loop(ts, i + 1, records, current_rec, active_record)
             ELSE IF c = ">"
             THEN Fasta_parse_loop(ts, i + 1,
                      IF active_record THEN Append(records, current_rec) ELSE records,
                      Record_set_header(Record_new, line), TRUE)
             ELSE Fasta_parse_loop(ts, i + 1, records,
                      IF active_record
                      THEN [current_rec EXCEPT !.sequence = current_rec.sequence \o line]
                      ELSE current_rec,
                      active_record)

\* The line iterator of Fasta::parse; batch_lines_until_error is the one
\* that stops at the first failed read.
batch_lines_until_error(ls) == take_while_ok(ls)
batch_lines(ls) == filter_map_ok(ls)

\* Fasta::parse(r): always Ok(records)
Fasta_parse_of(ls) ==
    [kind |-> "Ok",
     records |-> Fasta_parse_loop(batch_lines(ls), 1, <<>>, Record_new, FALSE)]

BatchNotCalled == [kind |-> "NotCalled", records |-> <<>>]

----------------------------------------------------------------------------
\* The parsers as a state machine: a FastaBuffer over the input, pulled by
\* its consumer, and Fasta::parse run on a second reader of the same input
\* (main.rs opens the file twice).

Init ==
    /\ lines \in Inputs
    /\ pos = 0
    /\ ret = NotCalled
    /\ active = FALSE
    /\ out = <<>>
    /\ batch = BatchNotCalled
    /\ op = "new"
    /\ pc = "free"
    /\ text = <<>>
    /\ again = <<>>

\* One call of FastaBuffer::next; the consumer keeps the Ok records
\* (filter_map(Result::ok) in main.rs and examples/fromfile.rs).
FastaBuffer_next ==
    LET r == FastaBuffer_call(lines, pos)
    IN  /\ ret' = r.ret
        /\ pos' = r.pos
        /\ active' = r.active
        /\ out' = IF r.ret.kind = "Ok" THEN Append(out, r.ret.rec) ELSE out
        /\ op' = "next"
        /\ UNCHANGED <<lines, batch, pc, text, again>>

\* Fasta::parse on the whole input
Fasta_parse ==
    /\ batch = BatchNotCalled
    /\ batch' = Fasta_parse_of(lines)
    /\ UNCHANGED <<lines, pos, ret, active, out, op, pc, text, again>>

Next ==
    \/ FastaBuffer_next
    \/ Fasta_parse

Spec == Init /\ [][Next]_vars

----------------------------------------------------------------------------
\* What the input says, read off the lines themselves.

AllReadable(ls) == \A i \in 1..Len(ls) : ls[i].ok

IsHeaderText(t) == first_char(trim(t)) = ">"
IsIgnoredText(t) == first_char(trim(t)) \in {NoChar, ";"}
IsSequenceText(t) == ~IsHeaderText(t) /\ ~IsIgnoredText(t)

\* The input without its comment and blank lines
WithoutIgnored(ls) == SelectSeq(ls, LAMBDA l : ~(l.ok /\ IsIgnoredText(l.s)))

\* The input without the lines whose read failed
WithoutFailed(ls) == SelectSeq(ls, LAMBDA l : l.ok)

HeaderPositions(ts) == {i \in 1..Len(ts) : IsHeaderText(ts[i])}

KthHeader(ts, k) ==
    CHOOSE i \in HeaderPositions(ts) :
        Cardinality({j \in HeaderPositions(ts) : j < i}) = k - 1

\* The last line before the header that follows position h, or the last line
SegmentEnd(ts, h) ==
    LET later == {j \in HeaderPositions(ts) : j > h}
    IN  IF later = {} THEN Len(ts)
        ELSE (CHOOSE j \in later : \A m \in later : j <= m) - 1

RECURSIVE ConcatTrimmed(_, _, _)
ConcatTrimmed(ts, i, e) ==
    IF i > e THEN <<>>
    ELSE (IF IsSequenceText(ts[i]) THEN trim(ts[i]) ELSE <<>>)
         \o ConcatTrimmed(ts, i + 1, e)

\* The trimmed sequence lines between the k-th header and the next, joined
ExpectedSequence(ts, k) ==
    LET h == KthHeader(ts, k) IN ConcatTrimmed(ts, h + 1, SegmentEnd(ts, h))

\* The records repeated FastaBuffer::next calls yield from position p until a
\* call returns None or a failure, and the kind of that last item.
RECURSIVE Collect(_, _)
Collect(ls, p) ==
    LET r == FastaBuffer_call(ls, p)
    IN  IF r.ret.kind = "Ok" THEN <<r.ret.rec>> \o Collect(ls, r.pos) ELSE <<>>

RECURSIVE LastKind(_, _)
LastKind(ls, p) ==
    LET r == FastaBuffer_call(ls, p)
    IN  IF r.ret.kind = "Ok" THEN LastKind(ls, r.pos) ELSE r.ret.kind

IsPrefix(a, b) == Len(a) <= Len(b) /\ a = SubSeq(b, 1, Len(a))

----------------------------------------------------------------------------
\* C1: on an input of readable lines, the records collected from
\* FastaBuffer::next until it returns None are, position by position, the
\* records Fasta::parse returns on the same lines.
C1_StreamEqualsBatch ==
    (AllReadable(lines) /\ op = "next" /\ ret = None /\ batch.kind = "Ok")
        => out = batch.records

\* C4: comment and blank lines change nothing: each parser yields on the
\* input what it yields on the input with those lines removed (the streaming
\* parser call by call: the records so far are a prefix, and all of them with
\* the same last item once a call returned None or a failure).
C4_IgnoredLinesInvisible ==
    /\ batch.kind = "Ok" => batch = Fasta_parse_of(WithoutIgnored(lines))
    /\ op = "next" => IsPrefix(out, Collect(WithoutIgnored(lines), 0))
    /\ (op = "next" /\ ret.kind # "Ok") =>
           /\ out = Collect(WithoutIgnored(lines), 0)
           /\ ret.kind = LastKind(WithoutIgnored(lines), 0)

\* A record with two sequence lines and a comment or blank line between
\* them, parsed by both parsers.
C4_Witness ==
    /\ batch.kind = "Ok" /\ op = "next" /\ ret = None
    /\ Len(lines) = 4 /\ AllReadable(lines)
    /\ IsHeaderText(lines[1].s) /\ IsSequenceText(lines[2].s)
    /\ IsIgnoredText(lines[3].s) /\ IsSequenceText(lines[4].s)
    /\ Len(out) = 1 /\ Len(batch.records) = 1
    /\ out[1].sequence = trim(lines[2].s) \o trim(lines[4].s)

\* C6: after a FastaBuffer::next call, the next line of the source is a read
\* failure exactly when the call returned Some(Err): a peeked failure is
\* never answered by the record built so far nor by None, active or not.
C6_FailureSurfaced ==
    op = "next" =>
        ((pos < Len(lines) /\ ~lines[pos + 1].ok) <=> ret = SomeErr)

\* A failure peeked while a record with sequence data was being built.
C6_Witness ==
    /\ op = "next" /\ ret = SomeErr /\ active
    /\ pos >= 2 /\ IsSequenceText(lines[pos].s) /\ lines[pos].ok
    /\ ~lines[pos + 1].ok

\* C7: Fasta::parse returns Ok, with the records it returns on the input
\* without the lines whose read failed.
C7_BatchDropsFailedLines ==
    batch # BatchNotCalled =>
        /\ batch.kind = "Ok"
        /\ batch = Fasta_parse_of(WithoutFailed(lines))

\* A failed line between a header and its sequence line, parsed.
C7_Witness ==
    /\ batch.kind = "Ok"
    /\ Len(lines) >= 3 /\ lines[1].ok /\ IsHeaderText(lines[1].s)
    /\ ~lines[2].ok /\ lines[3].ok /\ IsSequenceText(lines[3].s)
    /\ Len(batch.records) = 1 /\ batch.records[1].sequence # <<>>

\* C8: the sequence of every record either parser emits is the trimmed
\* sequence lines between its header and the next header, joined in order.
C8_SequenceIsTrimmedConcat ==
    /\ \A k \in 1..Len(out) :
           out[k].sequence = ExpectedSequence(filter_map_ok(lines), k)
    /\ batch.kind = "Ok" =>
           \A k \in 1..Len(batch.records) :
               batch.records[k].sequence = ExpectedSequence(filter_map_ok(lines), k)

----------------------------------------------------------------------------
\* The consumer loop of main.rs and examples/fromfile.rs:
\*     for rec in fastabuf.filter_map(Result::ok) { recs.push(rec); }
\* A sequential program: it keeps running while a step is possible.

InitMain ==
    /\ lines \in Inputs
    /\ pos = 0
    /\ ret = NotCalled
    /\ active = FALSE
    /\ out = <<>>
    /\ batch = BatchNotCalled
    /\ op = "new"
    /\ pc = "pull"
    /\ text = <<>>
    /\ again = <<>>

\* filter_map calls FastaBuffer::next
main_pull ==
    /\ pc = "pull"
    /\ LET r == FastaBuffer_call(lines, pos)
       IN  /\ ret' = r.ret
           /\ pos' = r.pos
           /\ active' = r.active
    /\ op' = "next"
    /\ pc' = "got"
    /\ UNCHANGED <<lines, out, batch, text, again>>

\* Some(Ok(rec)): the loop body pushes the record
main_push ==
    /\ pc = "got" /\ ret.kind = "Ok"
    /\ out' = Append(out, ret.rec)
    /\ pc' = "pull"
    /\ UNCHANGED <<lines, pos, ret, active, batch, op, text, again>>

\* Some(Err(_)): Result::ok maps it to None, filter_map pulls again
main_skip ==
    /\ pc = "got" /\ ret.kind = "Err"
    /\ pc' = "pull"
    /\ UNCHANGED <<lines, pos, ret, active, out, batch, op, text, again>>

\* None: the for loop ends
main_done ==
    /\ pc = "got" /\ ret.kind = "None"
    /\ pc' = "done"
    /\ UNCHANGED <<lines, pos, ret, active, out, batch, op, text, again>>

NextMain ==
    \/ main_pull
    \/ main_push
    \/ main_skip
    \/ main_done

SpecMain == InitMain /\ [][NextMain]_vars /\ WF_vars(NextMain)

\* C5: on every finite line source the consumer loop that pulls until None
\* ends: after finitely many FastaBuffer::next calls one returns None.
C5_PullLoopTerminates == <>(pc = "done")

----------------------------------------------------------------------------
\* The peekable line source on its own.

LNone == [kind |-> "None", line |-> ErrLine]
LSome(l) == [kind |-> "Some", line |-> l]

\* Peekable::peek / Peekable::next at position p
item_at(ls, p) == IF p < Len(ls) THEN LSome(ls[p + 1]) ELSE LNone

InitLines ==
    /\ lines \in Inputs
    /\ pos = 0
    /\ ret = LNone
    /\ active = FALSE
    /\ out = <<>>
    /\ batch = BatchNotCalled
    /\ op = "new"
    /\ pc = "free"
    /\ text = <<>>
    /\ again = <<>>

\* PeekableLines::peekline; peekline_consuming is a peek through
\* Iterator::next, which takes the line.
peekline_consuming ==
    /\ ret' = item_at(lines, pos)
    /\ pos' = IF pos < Len(lines) THEN pos + 1 ELSE pos
    /\ op' = "peekline"
    /\ UNCHANGED <<lines, active, out, batch, pc, text, again>>

peekline ==
    /\ ret' = item_at(lines, pos)
    /\ op' = "peekline"
    /\ UNCHANGED <<lines, pos, active, out, batch, pc, text, again>>

\* PeekableLines::advanceline
advanceline ==
    /\ ret' = item_at(lines, pos)
    /\ pos' = IF pos < Len(lines) THEN pos + 1 ELSE pos
    /\ op' = "advanceline"
    /\ UNCHANGED <<lines, active, out, batch, pc, text, again>>

NextLines ==
    \/ peekline
    \/ advanceline

SpecLines == InitLines /\ [][NextLines]_vars

\* C10: peekline returns the line at the position and leaves the position
\* alone, so consecutive peeklines return the same line; advanceline moves
\* the position by exactly one line and nothing else moves it; on an
\* exhausted source both return None.
C10_PeekAdvance ==
    [][/\ op' = "peekline" => (pos' = pos /\ ret' = item_at(lines, pos))
       /\ (op = "peekline" /\ op' = "peekline") => ret' = ret
       /\ op' = "advanceline" =>
              pos' = (IF pos < Len(lines) THEN pos + 1 ELSE pos)
       /\ pos' # pos => op' = "advanceline"
       /\ pos = Len(lines) => ret' = LNone
       /\ lines' = lines]_vars

\* A peek on a source whose lines were all consumed by advanceline.
C10_Witness ==
    /\ op = "peekline" /\ pos = Len(lines) /\ pos >= 2 /\ ret = LNone

----------------------------------------------------------------------------
\* The header splitters on their own: every text up to MaxHeaderLen over
\* the marker, whitespace and two letters is handed to each of them.

HeaderAlphabet == {">", " ", "a", "b"}

HeaderTexts == SeqsUpTo(HeaderAlphabet, MaxHeaderLen)

InitHeader ==
    /\ lines \in {<<OkLine(s)>> : s \in HeaderTexts}
    /\ pos = 0
    /\ ret = NotCalled
    /\ active = FALSE
    /\ out = <<>>
    /\ batch = BatchNotCalled
    /\ op = "new"
    /\ pc = "free"
    /\ text = <<>>
    /\ again = <<>>

\* rec.set_header(s) on a new Record
call_Record_set_header ==
    /\ ret' = SomeOk(Record_set_header(Record_new, lines[1].s))
    /\ op' = "Record::set_header"
    /\ UNCHANGED <<lines, pos, active, out, batch, pc, text, again>>

\* set_header(&mut rec, s) on a new Record
call_set_header ==
    /\ ret' = SomeOk(set_header(Record_new, lines[1].s))
    /\ op' = "set_header"
    /\ UNCHANGED <<lines, pos, active, out, batch, pc, text, again>>

NextHeader ==
    \/ call_Record_set_header
    \/ call_set_header

SpecHeader == InitHeader /\ [][NextHeader]_vars

\* The text after the marker, when the line has one
AfterMarker(s) == IF starts_with_marker(s) THEN Tail(s) ELSE s

\* The text up to the first whitespace
UpToWhitespace(s) ==
    LET ws == {i \in 1..Len(s) : is_whitespace(s[i])}
    IN  IF ws = {} THEN s
        ELSE SubSeq(s, 1, (CHOOSE k \in ws : \A j \in ws : k <= j) - 1)

\* The text after the first run of whitespace, empty when there is none
AfterWhitespaceRun(s) ==
    trim_start(SubSeq(s, Len(UpToWhitespace(s)) + 1, Len(s)))

\* C9: both header splitters give, for a line with or without the marker,
\* id = the text after the marker up to the first whitespace and
\* description = the text after the first run of whitespace (never starting
\* with whitespace); two empty strings when nothing follows the marker.
C9_HeaderSplit ==
    op \in {"Record::set_header", "set_header"} =>
        /\ ret.rec.id = UpToWhitespace(AfterMarker(lines[1].s))
        /\ ret.rec.description = AfterWhitespaceRun(AfterMarker(lines[1].s))
        /\ (ret.rec.description = <<>> \/ ~is_whitespace(Head(ret.rec.description)))

----------------------------------------------------------------------------
\* Display for Record, and what parsing the rendered text gives.

\* the end of the slice in self.sequence.get(0..40)
PreviewLen == 40

\* self.sequence.get(0..40).unwrap_or(&self.sequence): get is None when the
\* range ends past the end of the string.  preview_whole is the untruncated
\* sequence.
preview_whole(sequence) == sequence
preview(sequence) ==
    IF PreviewLen <= Len(sequence) THEN SubSeq(sequence, 1, PreviewLen) ELSE sequence

\* write!(f, ">{} {}\n{}...", id, description, preview); Record_fmt_one_line
\* is the format string without its newline.
Record_fmt_one_line(rec) ==
    <<">">> \o rec.id \o <<" ">> \o rec.description
        \o preview(rec.sequence) \o <<".", ".", ".">>
Record_fmt(rec) ==
    <<">">> \o rec.id \o <<" ">> \o rec.description \o <<"\n">>
        \o preview(rec.sequence) \o <<".", ".", ".">>

\* BufRead::lines() over the text: the pieces between newlines, the last one
\* only when it is not empty
RECURSIVE text_lines(_, _)
text_lines(t, cur) ==
    IF t = <<>> THEN (IF cur = <<>> THEN <<>> ELSE <<OkLine(cur)>>)
    ELSE IF Head(t) = "\n" THEN <<OkLine(cur)>> \o text_lines(Tail(t), <<>>)
    ELSE text_lines(Tail(t), Append(cur, Head(t)))

\* A sequence line of n letters, the k-th of them c (k = 0: none)
SequenceText(n, k, c) == [i \in 1..n |-> IF i = k THEN c ELSE "A"]

DisplayHeaders ==
    { <<">">>,
      <<">", "a">>,
      <<">", "b", " ", "d">>,
      <<">", "b", " ", " ", "d">>,
      <<" ", ">", "e", " ", "f", " ">> }

DisplayInputs ==
    { <<OkLine(h), OkLine(SequenceText(n, k, c))>> :
        h \in DisplayHeaders,
        n \in 0..MaxSeqLen,
        k \in 0..MaxSeqLen,
        c \in {"C", " "} }

InitDisplay ==
    /\ lines \in DisplayInputs
    /\ pos = 0
    /\ ret = NotCalled
    /\ active = FALSE
    /\ out = <<>>
    /\ batch = BatchNotCalled
    /\ op = "new"
    /\ pc = "free"
    /\ text = <<>>
    /\ again = <<>>

\* println!("{}", r) for the record parsed last
print_record ==
    /\ out # <<>>
    /\ pc = "free"
    /\ text' = Record_fmt(out[Len(out)])
    /\ pc' = "printed"
    /\ UNCHANGED <<lines, pos, ret, active, out, batch, op, again>>

\* A FastaBuffer over the printed text, pulled until None
reparse ==
    /\ pc = "printed"
    /\ again' = Collect(text_lines(text, <<>>), 0)
    /\ pc' = "reparsed"
    /\ UNCHANGED <<lines, pos, ret, active, out, batch, op, text>>

NextDisplay ==
    \/ FastaBuffer_next
    \/ print_record
    \/ reparse

SpecDisplay == InitDisplay /\ [][NextDisplay]_vars

\* The first n characters of s, all of s when it is shorter
FirstN(s, n) == [i \in 1..(IF Len(s) < n THEN Len(s) ELSE n) |-> s[i]]

\* s in lines of w characters: every full chunk followed by a newline, then
\* the remainder
RECURSIVE Wrap(_, _)
Wrap(s, w) ==
    IF Len(s) < w THEN s
    ELSE SubSeq(s, 1, w) \o <<"\n">> \o Wrap(SubSeq(s, w + 1, Len(s)), w)

HeaderLine(rec) == <<">">> \o rec.id \o <<" ">> \o rec.description \o <<"\n">>

----------------------------------------------------------------------------
\* Inputs without a header, and inputs that end in a header without data.

Texts(ls) == [i \in 1..Len(ls) |-> ls[i].s]

NoHeaderInput(ls) == AllReadable(ls) /\ HeaderPositions(Texts(ls)) = {}

LastHeader(ts) ==
    CHOOSE h \in HeaderPositions(ts) : \A j \in HeaderPositions(ts) : j <= h

EndsWithBareHeader(ls) ==
    /\ AllReadable(ls)
    /\ HeaderPositions(Texts(ls)) # {}
    /\ \A j \in (LastHeader(Texts(ls)) + 1)..Len(ls) : IsIgnoredText(ls[j].s)

\* What the header splitter gives for the trimmed k-th header line
HeaderOf(ts, k) == Record_set_header(Record_new, trim(ts[KthHeader(ts, k)]))

\* C11: on an input of readable lines without a header, Fasta::parse
\* returns Ok with no record, and the first FastaBuffer::next call returns
\* None having consumed every line (data lines before a header are skipped)
\* and started no record.
C11_NoHeaderNoRecord ==
    NoHeaderInput(lines) =>
        /\ batch # BatchNotCalled => batch = [kind |-> "Ok", records |-> <<>>]
        /\ op = "next" => (ret = None /\ out = <<>> /\ pos = Len(lines) /\ ~active)

\* Data and comment lines without any header, given to both parsers.
C11_Witness ==
    /\ NoHeaderInput(lines) /\ Len(lines) >= 2
    /\ \E i \in 1..Len(lines) : IsSequenceText(lines[i].s)
    /\ \E i \in 1..Len(lines) : IsIgnoredText(lines[i].s)
    /\ op = "next" /\ ret = None /\ batch.kind = "Ok"

\* C12: when the last header of a readable input is followed by comment and
\* blank lines only, both parsers yield a record for it, with an empty
\* sequence; FastaBuffer::next returns it from the call that exhausts the
\* source, and None only after it.
C12_BareHeaderYieldsRecord ==
    EndsWithBareHeader(lines) =>
        LET n == Cardinality(HeaderPositions(Texts(lines)))
        IN  /\ batch.kind = "Ok" =>
                   /\ Len(batch.records) = n
                   /\ batch.records[n].sequence = <<>>
            /\ (op = "next" /\ ret = None) =>
                   /\ Len(out) = n
                   /\ out[n].sequence = <<>>
                   /\ out[n].id = HeaderOf(Texts(lines), n).id
            /\ (op = "next" /\ ret.kind = "Ok" /\ Len(out) = n) =>
                   /\ pos = Len(lines)
                   /\ ret.rec = out[n]
                   /\ ret.rec.sequence = <<>>

\* A header followed by a comment line only, parsed by both parsers.
C12_Witness ==
    /\ Len(lines) = 2 /\ AllReadable(lines)
    /\ IsHeaderText(lines[1].s) /\ IsIgnoredText(lines[2].s)
    /\ lines[2].s # <<>>
    /\ op = "next" /\ ret = None /\ Len(out) = 1 /\ out[1].sequence = <<>>
    /\ batch.kind = "Ok" /\ Len(batch.records) = 1

----------------------------------------------------------------------------
----------------------------------------------------------------------------
\* C14: a FastaBuffer::next call that returns a record leaves a header as
\* the next unconsumed line, or the source exhausted; the records yielded so
\* far are started by the first headers of the input, one each and in input
\* order, and on an input of readable lines every header has started its
\* record when a call returns None.
C14_HeaderStartsOneRecord ==
    op = "next" =>
        /\ ret.kind = "Ok" =>
               \/ pos = Len(lines)
               \/ lines[pos + 1].ok /\ IsHeaderText(lines[pos + 1].s)
        /\ LET ts == filter_map_ok(lines)
           IN  /\ Len(out) <= Cardinality(HeaderPositions(ts))
               /\ \A k \in 1..Len(out) :
                      /\ out[k].id = HeaderOf(ts, k).id
                      /\ out[k].description = HeaderOf(ts, k).description
               /\ (AllReadable(lines) /\ ret = None) =>
                      Len(out) = Cardinality(HeaderPositions(ts))

\* Two records yielded, the first one by a call that stopped in front of
\* the second header, then None.
C14_Witness ==
    /\ op = "next" /\ ret = None /\ AllReadable(lines)
    /\ Len(out) = 2 /\ out[1].id # out[2].id
    /\ out[1].sequence # <<>>

\* C15: in both parsers a line is a header by its first non-whitespace
\* character, and the record it starts has the id and description of the
\* same line without the leading whitespace.
C15_HeaderAfterWhitespace ==
    AllReadable(lines) =>
        /\ \A k \in 1..Len(out) :
               /\ out[k].id = HeaderOf(Texts(lines), k).id
               /\ out[k].description = HeaderOf(Texts(lines), k).description
        /\ batch.kind = "Ok" =>
               /\ Len(batch.records) = Cardinality(HeaderPositions(Texts(lines)))
               /\ \A k \in 1..Len(batch.records) :
                      /\ batch.records[k].id = HeaderOf(Texts(lines), k).id
                      /\ batch.records[k].description
                             = HeaderOf(Texts(lines), k).description

\* C16: a FastaBuffer::next call that returned a failure left the failed
\* line as the next line of the source, and from then on every call returns
\* a failure again, consumes nothing and yields no record: what the failing
\* call had consumed and built is never emitted.
C16_FailureSticks ==
    [][(op = "next" /\ ret = SomeErr) =>
           /\ pos < Len(lines) /\ ~lines[pos + 1].ok
           /\ ret' = SomeErr /\ pos' = pos /\ out' = out /\ lines' = lines]_vars

\* A failure met after the header and a data line of a record, with a
\* further header behind the failed line.
C16_Witness ==
    /\ op = "next" /\ ret = SomeErr /\ active /\ out = <<>>
    /\ pos = 2 /\ IsHeaderText(lines[1].s) /\ IsSequenceText(lines[2].s)
    /\ Len(lines) = 4 /\ lines[4].ok /\ IsHeaderText(lines[4].s)

\* C19: a FastaBuffer::next call returns None only on an exhausted source,
\* and from then on every call returns None again and yields no record.
C19_EndIsStable ==
    [][(op = "next" /\ ret = None) =>
           /\ pos = Len(lines)
           /\ (op' = "next" => ret' = None)
           /\ out' = out /\ pos' = pos /\ lines' = lines]_vars

\* None returned after two records were yielded.
C19_Witness ==
    /\ op = "next" /\ ret = None /\ pos = Len(lines) /\ Len(out) = 2

----------------------------------------------------------------------------
\* The public function next_record(itr: &mut PeekableLines<B>) -> Option<Record>.

SomeRec(rec) == [kind |-> "Some", rec |-> rec]

\* The arm `Err(_) => return None`, taken before the line is consumed.
\* record_read_error_consuming is the arm that advances past the failed line
\* first.
record_read_error_consuming(p, act, rec) ==
    [ret |-> None, pos |-> p + 1, active |-> act]
record_read_error(p, act, rec) == [ret |-> None, pos |-> p, active |-> act]

\* The while-let loop of next_record and the final if
RECURSIVE next_record_loop(_, _, _, _)
next_record_loop(ls, p, act, rec) ==
    IF p >= Len(ls)
    THEN [ret |-> IF act THEN SomeRec(rec) ELSE None, pos |-> p, active |-> act]
    ELSE IF ~ls[p + 1].ok
    THEN record_read_error(p, act, rec)
    ELSE LET nextline == trim(ls[p + 1].s)
             c == first_char(nextline)
         IN  IF c = NoChar \/ c = ";"
             THEN next_record_loop(ls, p + 1, act, rec)
             ELSE IF c = ">" /\ act
             THEN [ret |-> SomeRec(rec), pos |-> p, active |-> act]
             ELSE IF c = ">"
             THEN next_record_loop(ls, p + 1, TRUE, set_header(rec, nextline))
             ELSE IF act
             THEN next_record_loop(ls, p + 1, act,
                      [rec EXCEPT !.sequence = rec.sequence \o nextline])
             ELSE next_record_loop(ls, p + 1, act, rec)

\* A PeekableLines over the input (PeekableLines::from)
InitRecord ==
    /\ lines \in Inputs
    /\ pos = 0
    /\ ret = NotCalled
    /\ active = FALSE
    /\ out = <<>>
    /\ batch = BatchNotCalled
    /\ op = "new"
    /\ pc = "free"
    /\ text = <<>>
    /\ again = <<>>

\* One call of next_record; the caller keeps the records
\* (while let Some(rec) = fasta::next_record(&mut linebuf) { recs.push(rec) })
next_record ==
    LET r == next_record_loop(lines, pos, FALSE, Record_new)
    IN  /\ ret' = r.ret
        /\ pos' = r.pos
        /\ active' = r.active
        /\ out' = IF r.ret.kind = "Some" THEN Append(out, r.ret.rec) ELSE out
        /\ op' = "next_record"
        /\ UNCHANGED <<lines, batch, pc, text, again>>

NextRecord ==
    \/ next_record

SpecRecord == InitRecord /\ [][NextRecord]_vars

\* C17: on an input of readable lines, repeated next_record calls yield the
\* records repeated FastaBuffer::next calls yield, in the same order, and
\* return None at the same call: not before every record is out, and at the
\* first call after.
C17_NextRecordAsFastaBuffer ==
    (AllReadable(lines) /\ op = "next_record") =>
        /\ IsPrefix(out, Collect(lines, 0))
        /\ ret.kind = "Some" => ret.rec = out[Len(out)]
        /\ ret = None =>
               (out = Collect(lines, 0) /\ LastKind(lines, 0) = "None")

\* Two records yielded by next_record, then None.
C17_Witness ==
    /\ AllReadable(lines) /\ op = "next_record"
    /\ ret = None /\ Len(out) = 2 /\ out[2].sequence # <<>>

\* C18: next_record answers a failed read with None, the value it returns
\* at exhaustion: the failed line stays the next line of the source, the
\* record built so far is not returned, and every later call returns None
\* again and yields nothing, so no record behind the failed line comes out.
C18_FailureLooksLikeEnd ==
    [][/\ (op' = "next_record" /\ pos' < Len(lines) /\ ~lines[pos' + 1].ok)
              => ret' = None
       /\ (op' = "next_record" /\ ret' = None) =>
              (pos' = Len(lines) \/ ~lines[pos' + 1].ok)
       /\ (op = "next_record" /\ ret = None) =>
              (ret' = None /\ pos' = pos /\ out' = out)
       /\ lines' = lines]_vars

\* None returned at a failed line met inside a record, with a header behind
\* the failed line.
C18_Witness ==
    /\ op = "next_record" /\ ret = None /\ active /\ out = <<>>
    /\ pos = 2 /\ IsHeaderText(lines[1].s) /\ IsSequenceText(lines[2].s)
    /\ ~lines[3].ok
    /\ Len(lines) = 4 /\ lines[4].ok /\ IsHeaderText(lines[4].s)

====
